---- MODULE Spec2Model ----
(***************************************************************************)
(* Model of src/2.py: the Kimi text-generation form.                       *)
(*                                                                         *)
(* Text is a sequence of atoms.  An atom is one character (" ", "{", "}",  *)
(* "-", a digit, a letter) or, for the brace-free runs of the prompt       *)
(* templates, the parameter names and the words of an upstream error       *)
(* message, one brace-free run of characters.  The Chinese identifiers of  *)
(* the source are written in pinyin:                                       *)
(*   gushi_shengcheng = story template     yingxiao_wenan = marketing copy *)
(*   lunwen_tigang    = paper outline      ziyou_chuangzuo = freeform      *)
(*   zhuti = topic, fengge = style, zishu = word count,                    *)
(*   chanpin_mingcheng = product name, pingtai = platform,                 *)
(*   hexin_maidian = key selling point, lunwen_timu = paper title,         *)
(*   xueke = discipline, zhangjie_shu = chapter count,                     *)
(*   yonghu_shuru = user input.                                            *)
(***************************************************************************)
EXTENDS Integers, Sequences, FiniteSets, TLC

VARIABLES
    PROMPT_TEMPLATES,    \* the module-level registry dict
    openai_ok,           \* environment: does OpenAI(...) construct in this process
    pc,                  \* position inside generate_content
    caller,              \* "none" | "api" (direct call) | "main" (the form's button)
    kimi_api_key,        \* argument 1
    template_type,       \* argument 2
    param_dict,          \* argument 3: function from key to value
    client,              \* TRUE once the OpenAI client is constructed
    idx,                 \* position of the validation loop in required_params
    invalid_or_missing,  \* the list built by the validation loop
    sent,                \* prompts submitted upstream by this invocation
    exc,                 \* text of the exception caught at line 81
    result,              \* the value the invocation ended with
    remembered,          \* an earlier finished invocation (inputs and result)
    stub_memo            \* what the deterministic upstream stub answered for it

vars == << PROMPT_TEMPLATES, openai_ok, pc, caller, kimi_api_key, template_type,
           param_dict, client, idx, invalid_or_missing, sent, exc, result,
           remembered, stub_memo >>

(***************************************************************************)
(* Python values.  One record shape for all of them:                       *)
(*   none  : None                                                          *)
(*   str   : s is the text                                                 *)
(*   int   : n is the value                                                *)
(*   float : s = <<>> and n the value in tenths, or s = <<"inf">> with     *)
(*           n the sign, or s = <<"nan">>                                  *)
(*   list  : a list of n zeros                                             *)
(***************************************************************************)
PyNone == [t |-> "none", s |-> <<>>, n |-> 0]
PyStr(s) == [t |-> "str", s |-> s, n |-> 0]
PyInt(n) == [t |-> "int", s |-> <<>>, n |-> n]
PyFloat(tenths) == [t |-> "float", s |-> <<>>, n |-> tenths]
PyInf(sign) == [t |-> "float", s |-> <<"inf">>, n |-> sign]
PyNan == [t |-> "float", s |-> <<"nan">>, n |-> 0]
PyList(n) == [t |-> "list", s |-> <<>>, n |-> n]

\* bool(value)
Truthy(v) ==
    CASE v.t = "none" -> FALSE
      [] v.t = "str" -> v.s # <<>>
      [] v.t = "int" -> v.n # 0
      [] v.t = "float" -> v.s # <<>> \/ v.n # 0
      [] OTHER -> v.n # 0

IsSpace(a) == a = " "

RECURSIVE LStrip(_)
LStrip(s) == IF s # <<>> /\ IsSpace(Head(s)) THEN LStrip(Tail(s)) ELSE s

RECURSIVE RStrip(_)
RStrip(s) ==
    IF s # <<>> /\ IsSpace(s[Len(s)]) THEN RStrip(SubSeq(s, 1, Len(s) - 1)) ELSE s

\* str.strip()
Strip(s) == RStrip(LStrip(s))

\* str.startswith(p)
StartsWith(s, p) == Len(s) >= Len(p) /\ SubSeq(s, 1, Len(p)) = p

\* needle in haystack
Contains(hay, needle) ==
    \E k \in 0..(Len(hay) - Len(needle)) : SubSeq(hay, k + 1, k + Len(needle)) = needle

Digits == <<"0", "1", "2", "3", "4", "5", "6", "7", "8", "9">>
IsDigit(a) == \E d \in 1..10 : Digits[d] = a
DigitVal(a) == (CHOOSE d \in 1..10 : Digits[d] = a) - 1

\* str(n) for an int n >= 0
RECURSIVE StrOfNat(_)
StrOfNat(n) ==
    IF n < 10 THEN <<Digits[n + 1]>> ELSE Append(StrOfNat(n \div 10), Digits[(n % 10) + 1])

StrOfInt(n) == IF n < 0 THEN <<"-">> \o StrOfNat(-n) ELSE StrOfNat(n)

\* str(value), which is also format(value, "") for these types
StrOf(v) ==
    CASE v.t = "none" -> <<"N", "o", "n", "e">>
      [] v.t = "str" -> v.s
      [] v.t = "int" -> StrOfInt(v.n)
      [] v.t = "float" ->
           IF v.s = <<"nan">> THEN <<"n", "a", "n">>
           ELSE IF v.s = <<"inf">>
                THEN (IF v.n < 0 THEN <<"-">> ELSE <<>>) \o <<"i", "n", "f">>
           ELSE (IF v.n < 0 THEN <<"-">> ELSE <<>>)
                \o StrOfNat((IF v.n < 0 THEN -v.n ELSE v.n) \div 10)
                \o <<".">> \o StrOfNat((IF v.n < 0 THEN -v.n ELSE v.n) % 10)
      [] OTHER ->
           <<"[">> \o [k \in 1..(IF v.n = 0 THEN 0 ELSE 3 * v.n - 2) |->
                          IF k % 3 = 1 THEN "0" ELSE IF k % 3 = 2 THEN "," ELSE " "]
                   \o <<"]">>

\* The digits of an int literal: digits, single underscores only between digits.
DigitsBody(b) ==
    /\ b # <<>>
    /\ \A k \in 1..Len(b) : IsDigit(b[k]) \/ b[k] = "_"
    /\ IsDigit(b[1]) /\ IsDigit(b[Len(b)])
    /\ \A k \in 1..(Len(b) - 1) : ~(b[k] = "_" /\ b[k + 1] = "_")

RECURSIVE DigitsValue(_, _)
DigitsValue(b, acc) ==
    IF b = <<>> THEN acc
    ELSE IF Head(b) = "_" THEN DigitsValue(Tail(b), acc)
    ELSE DigitsValue(Tail(b), 10 * acc + DigitVal(Head(b)))

Raise(name) == [exc |-> name, n |-> 0]
Value(n) == [exc |-> "none", n |-> n]

\* int(text): surrounding whitespace, an optional sign, the digits
IntOfStr(s) ==
    LET t == Strip(s)
        signed == t # <<>> /\ Head(t) \in {"+", "-"}
        body == IF signed THEN Tail(t) ELSE t
    IN  IF ~DigitsBody(body) THEN Raise("ValueError")
        ELSE IF signed /\ Head(t) = "-" THEN Value(-DigitsValue(body, 0))
        ELSE Value(DigitsValue(body, 0))

\* int(value)
IntOf(v) ==
    CASE v.t = "int" -> Value(v.n)
      [] v.t = "str" -> IntOfStr(v.s)
      [] v.t = "float" ->
           IF v.s = <<"nan">> THEN Raise("ValueError")
           ELSE IF v.s = <<"inf">> THEN Raise("OverflowError")
           ELSE IF v.n < 0 THEN Value(-((-v.n) \div 10))
           ELSE Value(v.n \div 10)
      [] OTHER -> Raise("TypeError")

(***************************************************************************)
(* The template registry (PROMPT_TEMPLATES, lines 10-27).                  *)
(***************************************************************************)
Ph(name) == <<"{", name, "}">>

\* a list that has drifted from its template: "fengge" renamed in the list only
StoryParamsRenamed == <<"zhuti", "leixing", "zishu">>

\* line 13
StoryParams == <<"zhuti", "fengge", "zishu">>

Registry ==
    [name \in {"gushi_shengcheng", "yingxiao_wenan", "lunwen_tigang", "ziyou_chuangzuo"} |->
       CASE name = "gushi_shengcheng" ->
              [template |-> <<"Qing yi">> \o Ph("zhuti")
                            \o <<"wei hexin, xie yi ge">> \o Ph("fengge")
                            \o <<"fengge de duanpian gushi, zishu kongzhi zai">> \o Ph("zishu")
                            \o <<"zi zuoyou. Yaoqiu qingjie wanzheng, juese xianming, yuyan liuchang.">>,
               params |-> StoryParams]
         [] name = "yingxiao_wenan" ->
              [template |-> <<"Wei">> \o Ph("chanpin_mingcheng")
                            \o <<"zhuanxie">> \o Ph("pingtai")
                            \o <<"pingtai de yingxiao wenan, tuchu">> \o Ph("hexin_maidian")
                            \o <<", yuyan fengge">> \o Ph("fengge")
                            \o <<", zishu kongzhi zai">> \o Ph("zishu")
                            \o <<"zi nei. Xu xiyin mubiao yonghu, jifa goumai yu.">>,
               params |-> <<"chanpin_mingcheng", "pingtai", "hexin_maidian", "fengge", "zishu">>]
         [] name = "lunwen_tigang" ->
              [template |-> <<"Wei <<">> \o Ph("lunwen_timu")
                            \o <<">> (">> \o Ph("xueke")
                            \o <<"lingyu) sheji xiangxi tigang, luoji qingxi, jiegou wanzheng, zhishao baohan">>
                            \o Ph("zhangjie_shu")
                            \o <<"ge zhangjie. Xu liechu mei ge zhangjie de hexin yanjiu neirong he luoji guanlian.">>,
               params |-> <<"lunwen_timu", "xueke", "zhangjie_shu">>]
         [] OTHER ->
              [template |-> Ph("yonghu_shuru"),
               params |-> <<"yonghu_shuru">>]]

\* The parameters validated as numbers (the list literal of line 57).
NumericParams == {"zishu", "zhangjie_shu"}

\* The required prefix of the key (line 32).
KeyPrefix == <<"s", "k", "-">>

(***************************************************************************)
(* template.format with the dict as keyword arguments (line 73): one       *)
(* left-to-right pass.                                                     *)
(* "{{" and "}}" are literal braces, "{name}" is replaced by the text of   *)
(* kwargs[name]; the replacement text is copied and never scanned again.   *)
(***************************************************************************)
FirstClose(t) == IF \E j \in 1..Len(t) : t[j] = "}"
                 THEN CHOOSE j \in 1..Len(t) : t[j] = "}" /\ \A k \in 1..(j - 1) : t[k] # "}"
                 ELSE 0

RECURSIVE FormatFrom(_, _, _)
FormatFrom(t, kwargs, acc) ==
    IF t = <<>> THEN [exc |-> <<>>, text |-> acc]
    ELSE IF Head(t) = "{" THEN
        IF Len(t) >= 2 /\ t[2] = "{" THEN FormatFrom(SubSeq(t, 3, Len(t)), kwargs, Append(acc, "{"))
        ELSE IF FirstClose(t) = 0
             THEN [exc |-> <<"ValueError">>, text |-> <<>>]
        ELSE LET j == FirstClose(t)
                 field == SubSeq(t, 2, j - 1)
             IN  IF field = <<>> THEN [exc |-> <<"IndexError">>, text |-> <<>>]
                 ELSE IF Len(field) # 1 \/ field[1] \notin DOMAIN kwargs
                      THEN [exc |-> <<"'">> \o field \o <<"'">>, text |-> <<>>]
                 ELSE FormatFrom(SubSeq(t, j + 1, Len(t)), kwargs, acc \o StrOf(kwargs[field[1]]))
    ELSE IF Head(t) = "}" THEN
        IF Len(t) >= 2 /\ t[2] = "}" THEN FormatFrom(SubSeq(t, 3, Len(t)), kwargs, Append(acc, "}"))
        ELSE [exc |-> <<"ValueError">>, text |-> <<>>]
    ELSE FormatFrom(Tail(t), kwargs, Append(acc, Head(t)))

\* a renderer that formats its own output again, expanding brace text that
\* came from a value
FormatRescan(t, kwargs) ==
    LET once == FormatFrom(t, kwargs, <<>>)
    IN  IF once.exc # <<>> THEN once ELSE FormatFrom(once.text, kwargs, <<>>)

Format(t, kwargs) == FormatFrom(t, kwargs, <<>>)

(***************************************************************************)
(* The value an invocation ends with.  generate_content returns a string;  *)
(* tag says which return statement built it, names and text what was       *)
(* interpolated into it.  "Uncaught" is no return at all: the exception    *)
(* named in text left generate_content.                                    *)
(***************************************************************************)
Res(tag, names, text) == [tag |-> tag, names |-> names, text |-> text]
NoResult == Res("none", <<>>, <<>>)

EmptyDict == [k \in {} |-> PyNone]

\* param_dict.get(param, "") (line 56)
Get(d, param) == IF param \in DOMAIN d THEN d[param] ELSE PyStr(<<>>)

\* str(e).lower() (line 82) on the word atoms of an error text
Lower(a) ==
    CASE a = "Invalid" -> "invalid"
      [] a = "API" -> "api"
      [] a = "Key" -> "key"
      [] a = "Insufficient" -> "insufficient"
      [] a = "FUNDS" -> "funds"
      [] OTHER -> a

LowerText(s) == [k \in 1..Len(s) |-> Lower(s[k])]

InvalidApiKey == <<"invalid", " ", "api", " ", "key">>
InsufficientFunds == <<"insufficient", " ", "funds">>

(***************************************************************************)
(* generate_content, one action per numbered step of the function.         *)
(***************************************************************************)
\* line 32: the key is accepted when it is truthy and its text, stripped,
\* starts with the prefix
\* a check that looks for the prefix anywhere in the key ("sk-" in key)
KeyAcceptedAnywhere ==
    Truthy(kimi_api_key) /\ Contains(Strip(StrOf(kimi_api_key)), KeyPrefix)

KeyAccepted ==
    Truthy(kimi_api_key) /\ StartsWith(Strip(StrOf(kimi_api_key)), KeyPrefix)

\* lines 46-51: PROMPT_TEMPLATES[template_type], KeyError when absent
\* a lookup that falls back to the freeform entry (dict.get with a default)
LookupWithDefault(name) ==
    [found |-> TRUE,
     info |-> IF name \in DOMAIN PROMPT_TEMPLATES THEN PROMPT_TEMPLATES[name]
              ELSE PROMPT_TEMPLATES["ziyou_chuangzuo"]]

Lookup(name) ==
    IF name \in DOMAIN PROMPT_TEMPLATES
    THEN [found |-> TRUE, info |-> PROMPT_TEMPLATES[name]]
    ELSE [found |-> FALSE, info |-> [template |-> <<>>, params |-> <<>>]]

template == Lookup(template_type).info.template
required_params == Lookup(template_type).info.params

\* lines 56-66: is this required parameter appended to invalid_or_missing;
\* exc names an exception the except clause of line 62 does not catch
ParamCheck(param, d) ==
    LET value == Get(d, param)
    IN  IF param \in NumericParams
        THEN LET num == IF Truthy(value) THEN IntOf(value) ELSE Value(0)
             IN  IF num.exc \in {"ValueError", "TypeError"}
                 THEN [exc |-> "none", bad |-> TRUE]
                 ELSE IF num.exc # "none" THEN [exc |-> num.exc, bad |-> FALSE]
                 ELSE [exc |-> "none", bad |-> num.n <= 0]
        ELSE [exc |-> "none", bad |-> Strip(StrOf(value)) = <<>>]

\* lines 82-88: the failure category of a caught exception text
\* the two substring tests in the other order
ClassificationQuotaFirst(message) ==
    LET error_info == LowerText(message)
    IN  IF Contains(error_info, InsufficientFunds) THEN Res("QuotaExceeded", <<>>, <<>>)
        ELSE IF Contains(error_info, InvalidApiKey) THEN Res("AuthenticationFailed", <<>>, <<>>)
        ELSE Res("UpstreamError", <<>>, message)

Classification(message) ==
    LET error_info == LowerText(message)
    IN  IF Contains(error_info, InvalidApiKey) THEN Res("AuthenticationFailed", <<>>, <<>>)
        ELSE IF Contains(error_info, InsufficientFunds) THEN Res("QuotaExceeded", <<>>, <<>>)
        ELSE Res("UpstreamError", <<>>, message)

\* lines 55-66: the loop only reads required_params, the list that sits in the
\* registry; the registry is afterwards what it was
\* a loop that consumes the list it walks (required_params.pop): the registry
\* entry is left without parameters
RegistryConsumed == [PROMPT_TEMPLATES EXCEPT ![template_type].params = <<>>]

RegistryAfterLoop == PROMPT_TEMPLATES

\* what the except clause of line 81 does with a failed upstream call:
\* classify it, never call again
\* an except clause that submits the prompt again
RetryAfterFailure == "generate"

AfterFailure == "except"

Idle ==
    /\ pc = "idle" /\ caller = "none"
    /\ kimi_api_key = PyNone /\ template_type = "" /\ param_dict = EmptyDict
    /\ client = FALSE /\ idx = 0 /\ invalid_or_missing = <<>>
    /\ sent = <<>> /\ exc = <<>> /\ result = NoResult

Enter(who, key, tpl, params) ==
    /\ pc = "idle"
    /\ pc' = "check_key"
    /\ caller' = who
    /\ kimi_api_key' = key
    /\ template_type' = tpl
    /\ param_dict' = params
    /\ UNCHANGED << PROMPT_TEMPLATES, openai_ok, client, idx, invalid_or_missing,
                    sent, exc, result, remembered, stub_memo >>

Finish(value) ==
    /\ pc' = "return"
    /\ result' = value

\* lines 32-33
CheckKey ==
    /\ pc = "check_key"
    /\ IF KeyAccepted
       THEN pc' = "init_client" /\ UNCHANGED result
       ELSE Finish(Res("InvalidCredential", <<>>, <<>>))
    /\ UNCHANGED << PROMPT_TEMPLATES, openai_ok, caller, kimi_api_key, template_type,
                    param_dict, client, idx, invalid_or_missing, sent, exc,
                    remembered, stub_memo >>

\* lines 36-43: kimi_api_key.strip() raises AttributeError on a non-string, the
\* constructor raises when the installation cannot build a client
InitClient ==
    /\ pc = "init_client"
    /\ IF kimi_api_key.t # "str"
       THEN Finish(Res("ClientInitFailed", <<>>, <<"AttributeError">>)) /\ UNCHANGED client
       ELSE IF ~openai_ok
       THEN Finish(Res("ClientInitFailed", <<>>, <<"OpenAIError">>)) /\ UNCHANGED client
       ELSE pc' = "get_template" /\ client' = TRUE /\ UNCHANGED result
    /\ UNCHANGED << PROMPT_TEMPLATES, openai_ok, caller, kimi_api_key, template_type,
                    param_dict, idx, invalid_or_missing, sent, exc, remembered, stub_memo >>

\* lines 46-54
GetTemplate ==
    /\ pc = "get_template"
    /\ IF Lookup(template_type).found
       THEN pc' = "validate" /\ idx' = 1 /\ invalid_or_missing' = <<>> /\ UNCHANGED result
       ELSE Finish(Res("UnknownTemplate", <<>>, <<>>)) /\ UNCHANGED << idx, invalid_or_missing >>
    /\ UNCHANGED << PROMPT_TEMPLATES, openai_ok, caller, kimi_api_key, template_type,
                    param_dict, client, sent, exc, remembered, stub_memo >>

\* lines 55-66: one iteration of the loop
ValidateParam ==
    /\ pc = "validate"
    /\ idx <= Len(required_params)
    /\ LET param == required_params[idx]
           chk == ParamCheck(param, param_dict)
       IN  IF chk.exc # "none"
           THEN /\ pc' = "raised"
                /\ result' = Res("Uncaught", <<>>, <<chk.exc>>)
                /\ UNCHANGED << idx, invalid_or_missing >>
           ELSE /\ idx' = idx + 1
                /\ invalid_or_missing' =
                       IF chk.bad THEN Append(invalid_or_missing, param) ELSE invalid_or_missing
                /\ UNCHANGED << pc, result >>
    /\ UNCHANGED << PROMPT_TEMPLATES, openai_ok, caller, kimi_api_key, template_type,
                    param_dict, client, sent, exc, remembered, stub_memo >>

\* lines 68-69
CheckInvalid ==
    /\ pc = "validate"
    /\ idx > Len(required_params)
    /\ IF invalid_or_missing # <<>>
       THEN Finish(Res("InvalidParameters", invalid_or_missing, <<>>))
       ELSE pc' = "generate" /\ UNCHANGED result
    /\ PROMPT_TEMPLATES' = RegistryAfterLoop
    /\ UNCHANGED << openai_ok, caller, kimi_api_key, template_type,
                    param_dict, client, idx, invalid_or_missing, sent, exc,
                    remembered, stub_memo >>

\* lines 72-80 with the upstream answering `outcome`: the prompt is rendered
\* and submitted once; a rendering error is caught like a failed call
GenerateWith(outcome) ==
    /\ pc = "generate"
    /\ LET rendered == Format(template, param_dict)
       IN  IF rendered.exc # <<>>
           THEN pc' = AfterFailure /\ exc' = rendered.exc /\ UNCHANGED << sent, result >>
           ELSE /\ sent' = Append(sent, rendered.text)
                /\ IF outcome.ok
                   THEN Finish(Res("Success", <<>>, outcome.text)) /\ UNCHANGED exc
                   ELSE pc' = AfterFailure /\ exc' = outcome.text /\ UNCHANGED result
    /\ UNCHANGED << PROMPT_TEMPLATES, openai_ok, caller, kimi_api_key, template_type,
                    param_dict, client, idx, invalid_or_missing, remembered, stub_memo >>

\* lines 81-88
Classify ==
    /\ pc = "except"
    /\ Finish(Classification(exc))
    /\ UNCHANGED << PROMPT_TEMPLATES, openai_ok, caller, kimi_api_key, template_type,
                    param_dict, client, idx, invalid_or_missing, sent, exc,
                    remembered, stub_memo >>

\* the invocation ends (a value is returned or the exception leaves the
\* function); its arguments and locals are gone
Leave ==
    /\ pc \in {"return", "raised"}
    /\ pc' = "idle" /\ caller' = "none"
    /\ kimi_api_key' = PyNone /\ template_type' = "" /\ param_dict' = EmptyDict
    /\ client' = FALSE /\ idx' = 0 /\ invalid_or_missing' = <<>>
    /\ sent' = <<>> /\ exc' = <<>> /\ result' = NoResult
    /\ UNCHANGED << PROMPT_TEMPLATES, openai_ok >>

Return == Leave /\ UNCHANGED << remembered, stub_memo >>

(***************************************************************************)
(* main(): the form.  get_param_placeholder gives the hint of a text box;  *)
(* the widget of a parameter decides which values the form can hand over.  *)
(***************************************************************************)
ZishuMin == 100
ZishuDefault == 500
ZishuMax == 2000
ZhangjieMin == 3
ZhangjieDefault == 5
ZhangjieMax == 10

\* lines 184-194
get_param_placeholder(param) ==
    IF param \in {"zhuti", "fengge", "chanpin_mingcheng", "pingtai", "hexin_maidian",
                  "lunwen_timu", "xueke"}
    THEN <<"hint for", param>>
    ELSE <<"Qing tianxie youxiao neirong">>

\* what a text box can hold
TextInputs == {<<>>, <<"a">>, <<" ">>, Ph("fengge")}

\* lines 129-162: the widget of `param`: the values it can return and, for a
\* single-line text box, its hint
Widget(param) ==
    CASE param = "zishu" ->
           [values |-> {PyInt(ZishuMin), PyInt(ZishuDefault), PyInt(ZishuMax)}, hint |-> <<>>]
      [] param = "zhangjie_shu" ->
           [values |-> {PyInt(ZhangjieMin), PyInt(ZhangjieDefault), PyInt(ZhangjieMax)},
            hint |-> <<>>]
      [] param = "yonghu_shuru" ->
           [values |-> {PyStr(x) : x \in TextInputs}, hint |-> <<>>]
      [] OTHER ->
           [values |-> {PyStr(x) : x \in TextInputs}, hint |-> get_param_placeholder(param)]

Range(q) == {q[k] : k \in 1..Len(q)}

\* lines 125-165: the dicts main() can build for a template, one value per
\* required parameter from its widget
FormDicts(tpl) ==
    LET req == Range(PROMPT_TEMPLATES[tpl].params)
        form == [p \in req |-> Widget(p)]
    IN  {d \in [req -> UNION {form[p].values : p \in req}] :
            \A p \in req : d[p] \in form[p].values}

(***************************************************************************)
(* The inputs of the checked runs.                                         *)
(***************************************************************************)
MaxPad == 2
MaxOdd == 3
MaxMsgParts == 3

Pad(n) == [k \in 1..n |-> " "]

KeyBodies ==
    {<<>>, KeyPrefix, KeyPrefix \o <<"a">>, <<"s", "k">>, <<"a">>, <<"a", "s", "k", "-">>,
     <<"S", "K", "-", "a">>, <<"s", " ", "k", "-">>}

RichKeys ==
    {PyStr(Pad(l) \o b \o Pad(r)) : l \in 0..MaxPad, r \in 0..MaxPad, b \in KeyBodies}
        \cup {PyNone, PyInt(0), PyInt(5)}

BasicKeys == {PyStr(KeyPrefix \o <<"a">>), PyStr(<<" ">> \o KeyPrefix \o <<"a">>), PyStr(<<>>)}

UnknownTemplate == "wu_ci_moban"
TemplateNames == DOMAIN Registry \cup {UnknownTemplate}

\* the keys a caller fills in for a template name
KeysOf(tpl) ==
    IF tpl \in DOMAIN Registry THEN Range(Registry[tpl].params)
    ELSE Range(Registry["gushi_shengcheng"].params)

DefaultValue(param) ==
    CASE param = "zishu" -> PyInt(ZishuDefault)
      [] param = "zhangjie_shu" -> PyInt(ZhangjieDefault)
      [] OTHER -> PyStr(<<"a">>)

Missing == [t |-> "missing", s |-> <<>>, n |-> 0]

OddText == {Missing, PyStr(<<>>), PyStr(<<" ">>), PyStr(Ph("fengge")), PyNone, PyInt(0)}

OddNumber ==
    {Missing, PyNone, PyStr(<<>>), PyStr(<<"a">>), PyStr(<<" ", "7", " ">>), PyStr(<<"-", "3">>),
     PyStr(<<"1", "_", "0">>), PyInt(0), PyInt(-1), PyFloat(5), PyFloat(-15),
     PyInf(1), PyInf(-1), PyNan, PyList(1)}

OddExtra == {PyStr(<<"x">>)}

OddValues(key) ==
    IF key \in NumericParams THEN OddNumber
    ELSE IF key = "extra" THEN OddExtra
    ELSE OddText

\* the default dict of the keys `req` with the keys of `odd` replaced
DictWith(req, odd) ==
    [k \in (req \ DOMAIN odd) \cup {x \in DOMAIN odd : odd[x] # Missing} |->
        IF k \in DOMAIN odd THEN odd[k] ELSE DefaultValue(k)]

OddChoices(keys) ==
    {f \in [keys -> OddText \cup OddNumber \cup OddExtra] : \A k \in keys : f[k] \in OddValues(k)}

\* every dict that differs from the default in at most MaxOdd keys,
\* "extra" being a key no template requires
RichDicts(tpl) ==
    LET req == KeysOf(tpl)
    IN  {EmptyDict} \cup
        UNION { {DictWith(req, f) : f \in OddChoices(keys)} :
                  keys \in {x \in SUBSET (req \cup {"extra"}) : Cardinality(x) <= MaxOdd} }

BasicDicts(tpl) ==
    LET req == KeysOf(tpl)
    IN  { DictWith(req, EmptyDict),
          EmptyDict,
          DictWith(req, [k \in req \cap NumericParams |-> PyInt(0)]),
          DictWith(req, [k \in {"extra"} |-> PyStr(<<"x">>)]) }

Outcome(ok, text) == [ok |-> ok, text |-> text]

BasicOutcomes ==
    { Outcome(TRUE, <<"Success">>),
      Outcome(FALSE, <<"Invalid", " ", "API", " ", "Key">>),
      Outcome(FALSE, <<"Insufficient", " ", "funds">>),
      Outcome(FALSE, <<"timeout">>) }

MsgParts ==
    { <<"Invalid", " ", "API">>, <<" ", "key">>, <<"invalid", " ", "api", " ", "key">>,
      <<"Insufficient", " ", "FUNDS">>, <<"insufficient">>, <<" ", "funds">>,
      <<"timeout">>, <<" ">> }

RECURSIVE Messages(_)
Messages(n) ==
    IF n = 0 THEN {<<>>}
    ELSE Messages(n - 1) \cup {m \o part : m \in Messages(n - 1), part \in MsgParts}

RichOutcomes ==
    {Outcome(TRUE, <<"Success">>)} \cup {Outcome(FALSE, m) : m \in Messages(MaxMsgParts)}

NoMemory == [set |-> FALSE, key |-> PyNone, tpl |-> "", params |-> EmptyDict, result |-> NoResult]
NoAnswer == [set |-> FALSE, prompt |-> <<>>, outcome |-> Outcome(TRUE, <<>>)]

(***************************************************************************)
(* The callers and the upstream.                                           *)
(***************************************************************************)
\* generate_content called with any arguments: every key with the basic dicts,
\* the basic keys with every dict
Call ==
    /\ pc = "idle"
    /\ \E tpl \in TemplateNames :
       \/ \E key \in RichKeys, d \in BasicDicts(tpl) : Enter("api", key, tpl, d)
       \/ \E key \in BasicKeys, d \in RichDicts(tpl) : Enter("api", key, tpl, d)

CallBasic ==
    /\ pc = "idle"
    /\ \E tpl \in TemplateNames, key \in BasicKeys :
       \E d \in BasicDicts(tpl) : Enter("api", key, tpl, d)

\* lines 170-172: the button of the form
Main ==
    /\ pc = "idle"
    /\ \E tpl \in DOMAIN PROMPT_TEMPLATES, key \in {k \in BasicKeys : k.t = "str"} :
       \E d \in FormDicts(tpl) : Enter("main", key, tpl, d)

\* the upstream answers as it likes
Generate == pc = "generate" /\ \E o \in BasicOutcomes : GenerateWith(o)

GenerateRich == pc = "generate" /\ \E o \in RichOutcomes : GenerateWith(o)

\* the upstream is a stub that answers a prompt the way it answered it before
GenerateStub ==
    /\ pc = "generate"
    /\ \E o \in BasicOutcomes :
       /\ (stub_memo.set /\ stub_memo.prompt = Format(template, param_dict).text)
             => o = stub_memo.outcome
       /\ GenerateWith(o)

\* the invocation ends and is the one remembered
Remember ==
    /\ ~remembered.set
    /\ Leave
    /\ remembered' = [set |-> TRUE, key |-> kimi_api_key, tpl |-> template_type,
                      params |-> param_dict, result |-> result]
    /\ stub_memo' = IF sent = <<>> THEN stub_memo
                    ELSE [set |-> TRUE, prompt |-> sent[1],
                          outcome |-> IF result.tag = "Success"
                                      THEN Outcome(TRUE, result.text)
                                      ELSE Outcome(FALSE, exc)]

Init ==
    /\ PROMPT_TEMPLATES = Registry
    /\ openai_ok \in BOOLEAN
    /\ Idle
    /\ remembered = NoMemory
    /\ stub_memo = NoAnswer

Steps == CheckKey \/ InitClient \/ GetTemplate \/ ValidateParam \/ CheckInvalid \/ Classify

Next == Call \/ Main \/ Steps \/ Generate \/ Return

Spec == Init /\ [][Next]_vars

NextUpstream == CallBasic \/ Steps \/ GenerateRich \/ Return

SpecUpstream == Init /\ [][NextUpstream]_vars

NextTwice == CallBasic \/ Steps \/ GenerateStub \/ Return \/ Remember

SpecTwice == Init /\ [][NextTwice]_vars

(***************************************************************************)
(* The properties.                                                         *)
(***************************************************************************)
Done == pc \in {"return", "raised"}

\* a credential of the expected form: a string that, leading whitespace
\* skipped, begins with the prefix
SkipsToPrefix(s) ==
    \E k \in 0..Len(s) :
       /\ \A j \in 1..k : s[j] = " "
       /\ Len(s) >= k + Len(KeyPrefix)
       /\ \A j \in 1..Len(KeyPrefix) : s[k + j] = KeyPrefix[j]

FormatValid(key) == key.t = "str" /\ SkipsToPrefix(key.s)

\* a credential that literally begins with the prefix
BeginsWithPrefix(key) ==
    key.t = "str" /\ Len(key.s) >= Len(KeyPrefix)
                  /\ \A j \in 1..Len(KeyPrefix) : key.s[j] = KeyPrefix[j]

Rejected ==
    /\ pc = "return"
    /\ result.tag = "InvalidCredential"
    /\ sent = <<>>
    /\ ~client

\* C1 as stated: once the credential check has run, a credential that is empty
\* or does not begin with "sk-" has ended the invocation with InvalidCredential,
\* no client built and nothing submitted upstream.
C1_Original ==
    (pc \notin {"idle", "check_key"} /\ ~BeginsWithPrefix(kimi_api_key)) => Rejected

\* C1 amended: once the credential check has run, a credential that is empty or
\* whose text, surrounding whitespace removed, does not begin with "sk-" has
\* ended the invocation with InvalidCredential, whatever the template name and
\* the parameters, no client built and nothing submitted upstream.
C1_Amended ==
    (pc \notin {"idle", "check_key"} /\ ~FormatValid(kimi_api_key)) => Rejected

C1_Witness ==
    /\ Rejected
    /\ kimi_api_key.t = "str" /\ kimi_api_key.s # <<>>
    /\ template_type \in DOMAIN PROMPT_TEMPLATES
    /\ param_dict # EmptyDict

\* C5: an invocation never ends with an exception leaving generate_content.
C5_NoUncaught == pc # "raised" /\ result.tag # "Uncaught"

\* the supplied value is 0, a negative number or a string without any digit
BadNumber(v) ==
    \/ v.t = "int" /\ v.n <= 0
    \/ v.t = "float" /\ v.s # <<"nan">> /\ (v.n < 0 \/ (v.s = <<>> /\ v.n = 0))
    \/ v.t = "str" /\ \A k \in 1..Len(v.s) : ~IsDigit(v.s[k])

\* C2: with the client built and a registered template, an invocation whose
\* numeric required parameter was supplied as 0, a negative number or a
\* non-numeric string ends with InvalidParameters naming that parameter.
C2_BadNumberReported ==
    (Done /\ client /\ template_type \in DOMAIN PROMPT_TEMPLATES) =>
       \A k \in 1..Len(required_params) :
          LET p == required_params[k]
          IN  (p \in NumericParams /\ p \in DOMAIN param_dict /\ BadNumber(param_dict[p]))
                 => (result.tag = "InvalidParameters" /\ p \in Range(result.names))

\* the claim's notion of an invalid required parameter
ClaimInvalid(p, d) ==
    IF p \in NumericParams
    THEN LET v == Get(d, p)
         IN  ~Truthy(v) \/ IntOf(v).exc # "none" \/ IntOf(v).n <= 0
    ELSE p \notin DOMAIN d \/ Strip(StrOf(d[p])) = <<>>

RECURSIVE InvalidInOrder(_, _)
InvalidInOrder(req, d) ==
    IF req = <<>> THEN <<>>
    ELSE (IF ClaimInvalid(Head(req), d) THEN <<Head(req)>> ELSE <<>>)
            \o InvalidInOrder(Tail(req), d)

\* C3: with the client built and a registered template, the invocation ends
\* with InvalidParameters exactly when some required parameter is invalid, and
\* the failure then lists every invalid one, once, in declaration order.
C3_AllInvalidListed ==
    (Done /\ client /\ template_type \in DOMAIN PROMPT_TEMPLATES) =>
       LET expected == InvalidInOrder(required_params, param_dict)
       IN  /\ (result.tag = "InvalidParameters") <=> (expected # <<>>)
           /\ result.tag = "InvalidParameters" => result.names = expected

\* the template with each {name} of a supplied key replaced by the text of its
\* value, every other atom kept
RECURSIVE Substituted(_, _)
Substituted(t, d) ==
    IF t = <<>> THEN <<>>
    ELSE IF Len(t) >= 3 /\ t[1] = "{" /\ t[3] = "}" /\ t[2] \in DOMAIN d
         THEN StrOf(d[t[2]]) \o Substituted(SubSeq(t, 4, Len(t)), d)
         ELSE <<t[1]>> \o Substituted(Tail(t), d)

\* the text holds {name} for a required parameter name
HasPlaceholder(text, req) ==
    \E k \in 1..(Len(text) - 2) :
       text[k] = "{" /\ text[k + 1] \in Range(req) /\ text[k + 2] = "}"

HasBrace(text) == \E k \in 1..Len(text) : text[k] \in {"{", "}"}

\* C4 as stated: a submitted prompt is the template with every placeholder
\* replaced by the supplied value and holds no placeholder of the template,
\* whatever the values.
C4_Original ==
    sent # <<>> =>
       /\ sent[1] = Substituted(Registry[template_type].template, param_dict)
       /\ ~HasPlaceholder(sent[1], Registry[template_type].params)

\* C4 amended: a submitted prompt is the template with every placeholder
\* replaced, in one pass, by the text of the supplied value (extra keys are
\* ignored, brace text of a value is copied as it is); it holds no placeholder
\* of the template when no supplied value of a required parameter holds a brace.
C4_Amended ==
    sent # <<>> =>
       /\ sent[1] = Substituted(Registry[template_type].template, param_dict)
       /\ (\A p \in Range(Registry[template_type].params) : ~HasBrace(StrOf(param_dict[p])))
             => ~HasPlaceholder(sent[1], Registry[template_type].params)

C4_Witness ==
    /\ sent # <<>>
    /\ "extra" \in DOMAIN param_dict
    /\ \E p \in Range(required_params) : HasBrace(StrOf(param_dict[p]))
    /\ HasPlaceholder(sent[1], required_params)

\* case-insensitive search on the word atoms of an error text
HoldsIgnoringCase(text, needle) ==
    \E k \in 0..(Len(text) - Len(needle)) :
       \A j \in 1..Len(needle) : Lower(text[k + j]) = needle[j]

\* C6: a caught failure is returned as AuthenticationFailed when its text holds
\* "invalid api key" in any case, else as QuotaExceeded when it holds
\* "insufficient funds" in any case, else as UpstreamError with the text as it
\* was.
C6_Classified ==
    (pc = "return" /\ exc # <<>>) =>
       IF HoldsIgnoringCase(exc, InvalidApiKey) THEN result.tag = "AuthenticationFailed"
       ELSE IF HoldsIgnoringCase(exc, InsufficientFunds) THEN result.tag = "QuotaExceeded"
       ELSE result.tag = "UpstreamError" /\ result.text = exc

C6_Witness ==
    /\ pc = "return" /\ sent # <<>>
    /\ HoldsIgnoringCase(exc, InvalidApiKey) /\ HoldsIgnoringCase(exc, InsufficientFunds)
    /\ ~Contains(exc, InvalidApiKey)
    /\ result.tag = "AuthenticationFailed"

\* C7: an invocation submits at most one prompt, and only with the credential
\* accepted, the client built, the template registered and no required
\* parameter invalid; a failed submission ends the invocation with a failure
\* category and is not repeated.
C7_SingleAttempt ==
    /\ Len(sent) <= 1
    /\ sent # <<>> =>
          /\ FormatValid(kimi_api_key) /\ client
          /\ template_type \in DOMAIN Registry
          /\ InvalidInOrder(Registry[template_type].params, param_dict) = <<>>
    /\ (pc = "return" /\ exc # <<>>) =>
          result.tag \in {"AuthenticationFailed", "QuotaExceeded", "UpstreamError"}
    /\ pc = "except" => exc # <<>>

C7_Witness ==
    /\ pc = "return" /\ Len(sent) = 1 /\ exc # <<>>
    /\ result.tag = "UpstreamError"

\* C8: the registry has its four entries, every required parameter of an entry
\* occurs as {name} in the entry's template, and the registry is in every
\* state the one the module defined.
C8_RegistryConsistent ==
    /\ Cardinality(DOMAIN PROMPT_TEMPLATES) = 4
    /\ \A name \in DOMAIN PROMPT_TEMPLATES :
          \A p \in Range(PROMPT_TEMPLATES[name].params) :
             Contains(PROMPT_TEMPLATES[name].template, <<"{", p, "}">>)
    /\ PROMPT_TEMPLATES = Registry

C8_Witness ==
    /\ pc = "return" /\ caller = "main" /\ result.tag = "Success"
    /\ template_type = "yingxiao_wenan"

SameInputs ==
    /\ remembered.set
    /\ kimi_api_key = remembered.key
    /\ template_type = remembered.tpl
    /\ param_dict = remembered.params

\* C9: with an upstream that answers a prompt as it answered it before, an
\* invocation with the inputs of an earlier one ends with the result of the
\* earlier one, whatever was invoked in between.
C9_SameResult == (Done /\ SameInputs) => result = remembered.result

C9_Witness ==
    /\ Done /\ SameInputs /\ sent # <<>>
    /\ result.tag = "QuotaExceeded"

\* C10 as stated: with a credential of the expected form, an unregistered
\* template name ends the invocation with UnknownTemplate, nothing submitted.
C10_Original ==
    (Done /\ FormatValid(kimi_api_key) /\ template_type \notin DOMAIN Registry) =>
       (result.tag = "UnknownTemplate" /\ sent = <<>>)

\* C10 amended: the stages run in the order credential, client construction,
\* template resolution, parameter validation.  With a credential of the
\* expected form, an unregistered template name ends the invocation with
\* UnknownTemplate when the client could be built and with the client
\* failure when it could not; never with InvalidParameters, and nothing is
\* submitted.
C10_Amended ==
    (Done /\ FormatValid(kimi_api_key) /\ template_type \notin DOMAIN Registry) =>
       /\ result.tag = IF openai_ok THEN "UnknownTemplate" ELSE "ClientInitFailed"
       /\ sent = <<>>
       /\ invalid_or_missing = <<>>

C10_Witness ==
    /\ Done /\ FormatValid(kimi_api_key) /\ template_type \notin DOMAIN Registry
    /\ result.tag = "UnknownTemplate"
    /\ \E p \in KeysOf(template_type) : p \in DOMAIN param_dict /\ ClaimInvalid(p, param_dict)
====
